---- MODULE Spec2Model ----
(***************************************************************************)
(* Model of the two Arduino sketches of the repository:                    *)
(*   - the LCD demo (setup / findDeviceAddress / loop / printStringToLCD / *)
(*     printWord), whose word-wrapping renderer is modelled step by step   *)
(*     with its 8-bit counters;                                            *)
(*   - the Bluetooth demo (updateBluetooth), a command dispatcher.         *)
(* Characters are one-character strings, a String is a sequence of them.   *)
(* C indices are 0-based; sequences are 1-based, so buffer[i] of the code  *)
(* is buf[i + 1] here.                                                     *)
(***************************************************************************)
EXTENDS Integers, Sequences, FiniteSets, TLC

\* ---------------------------------------------------------------------
\* Program constants of the LCD sketch
CHARS_PER_LINE == 16
NUM_LINES == 2
DEVICE_NOT_FOUND == -1
FRAME_DELAY == 3000
POSSIBLE_ADDRESSES == 128
BACKLIGHT_PIN == 3
LED_ON == 1

\* Width of uint8_t
Uint8Range == 256

\* ---------------------------------------------------------------------
\* Bounds of the model
MaxLen == 4          \* every buffer over ShortAlphabet up to this length is an input
MaxLog == 48         \* display events recorded per loop() pass; later ones are dropped
MaxRx == 7           \* characters the receive buffer of the Bluetooth link holds

\* ---------------------------------------------------------------------
\* Characters and strings
NUL == "NUL"
SPACE == " "
Letters == <<"a","b","c","d","e","f","g","h","i","j","k","l","m",
             "n","o","p","q","r","s","t","u","v","w","x","y","z">>
ShortAlphabet == {SPACE, "a", "b"}

\* a word of n non-space characters, the i-th one determined by i
Word(n) == [i \in 1..n |-> Letters[((i - 1) % 26) + 1]]

Min(a, b) == IF a < b THEN a ELSE b

\* conversion of an int to uint8_t
ToUint8(n) == n % Uint8Range

\* String::substring(left, right) of the Arduino core, as called by printWord:
\* swaps the arguments when left > right, returns "" when left >= len,
\* clamps right to len, and yields the characters [left, right).
substring(s, left, right) ==
  LET l  == IF left > right THEN right ELSE left
      r0 == IF left > right THEN left ELSE right
      r  == IF r0 > Len(s) THEN Len(s) ELSE r0
  IN  IF l >= Len(s) THEN <<>> ELSE SubSeq(s, l + 1, r)

\* String::toCharArray(buf, bufsize) of the Arduino core, as called by
\* printStringToLCD: nothing is written when bufsize is 0; otherwise
\* n = min(bufsize - 1, len) characters are copied and buf[n] is set to NUL.
\* Every other element of buf keeps the value it had.
toCharArray(s, buf, bufsize) ==
  IF bufsize = 0 THEN buf
  ELSE LET n == Min(bufsize - 1, Len(s))
       IN  [i \in 1..Len(buf) |-> IF i <= n THEN s[i]
                                   ELSE IF i = n + 1 THEN NUL ELSE buf[i]]

\* the display handle: the null pointer, or an object bound to an I2C address
NULL == <<>>
LiquidCrystal_I2C(a) == <<a>>

\* ---------------------------------------------------------------------
\* Display operations (calls on the LiquidCrystal_I2C object, and delay())
PrintEv(t)          == [op |-> "print",     text |-> t,    col |-> 0, row |-> 0, ms |-> 0]
SetCursorEv(c, r)   == [op |-> "setCursor", text |-> <<>>, col |-> c, row |-> r, ms |-> 0]
ClearEv             == [op |-> "clear",     text |-> <<>>, col |-> 0, row |-> 0, ms |-> 0]
DelayEv(t)          == [op |-> "delay",     text |-> <<>>, col |-> 0, row |-> 0, ms |-> t]
BeginEv(c, r)       == [op |-> "begin",     text |-> <<>>, col |-> c, row |-> r, ms |-> 0]
BacklightPinEv(p)   == [op |-> "setBacklightPin", text |-> <<>>, col |-> p, row |-> 0, ms |-> 0]
BacklightEv(v)      == [op |-> "setBacklight",    text |-> <<>>, col |-> v, row |-> 0, ms |-> 0]

\* The cursor of the display after one operation: clear() homes the cursor,
\* setCursor(col, row) moves it, print advances the column by the number of
\* characters written; the other calls leave it alone.
CursorAfterOp(cur, ev) ==
  IF ev.op = "clear" THEN [row |-> 0, col |-> 0]
  ELSE IF ev.op = "setCursor" THEN [row |-> ev.row, col |-> ev.col]
  ELSE IF ev.op = "print" THEN [row |-> cur.row, col |-> cur.col + Len(ev.text)]
  ELSE cur

RECURSIVE CursorAfter(_, _)
CursorAfter(cur, ops) ==
  IF ops = <<>> THEN cur
  ELSE CursorAfter(CursorAfterOp(cur, Head(ops)), Tail(ops))

\* ---------------------------------------------------------------------
\* Faulty variants of printWord, which the properties below tell apart
\* from it.

\* the page is cleared before the pause instead of after it
printWord_clearBeforeDelay(buf, is, ls, wl, cr, off) ==
  IF (is + wl - 1) < CHARS_PER_LINE
  THEN [ops        |-> <<PrintEv(substring(buf, ls, ls + wl))>>,
        indexSpace |-> ToUint8(is + wl),
        lastSpace  |-> off,
        wordLength |-> 0,
        currRow    |-> cr]
  ELSE LET nr == IF cr = 1 THEN 0 ELSE 1
       IN  [ops        |-> (IF cr = 1 THEN <<ClearEv, DelayEv(FRAME_DELAY)>> ELSE <<>>)
                           \o <<SetCursorEv(0, nr),
                                PrintEv(substring(buf, ls + 1, ls + wl))>>,
            indexSpace |-> ToUint8(0 + wl),
            lastSpace  |-> off,
            wordLength |-> 0,
            currRow    |-> nr]

\* the fit test forgets the offset already used on the row
printWord_fitIgnoresOffset(buf, is, ls, wl, cr, off) ==
  IF (wl - 1) < CHARS_PER_LINE
  THEN [ops        |-> <<PrintEv(substring(buf, ls, ls + wl))>>,
        indexSpace |-> ToUint8(is + wl),
        lastSpace  |-> off,
        wordLength |-> 0,
        currRow    |-> cr]
  ELSE LET nr == IF cr = 1 THEN 0 ELSE 1
       IN  [ops        |-> (IF cr = 1 THEN <<DelayEv(FRAME_DELAY), ClearEv>> ELSE <<>>)
                           \o <<SetCursorEv(0, nr),
                                PrintEv(substring(buf, ls + 1, ls + wl))>>,
            indexSpace |-> ToUint8(0 + wl),
            lastSpace  |-> off,
            wordLength |-> 0,
            currRow    |-> nr]

\* ---------------------------------------------------------------------
\* printWord: the flush of one word.  The arithmetic of the fit test and of
\* the substring arguments is int arithmetic (the uint8_t operands are
\* promoted); the compound assignment to indexSpace truncates to 8 bits.
printWord(buf, is, ls, wl, cr, off) ==
  IF (is + wl - 1) < CHARS_PER_LINE
  THEN [ops        |-> <<PrintEv(substring(buf, ls, ls + wl))>>,
        indexSpace |-> ToUint8(is + wl),
        lastSpace  |-> off,
        wordLength |-> 0,
        currRow    |-> cr]
  ELSE LET nr == IF cr = 1 THEN 0 ELSE 1
       IN  [ops        |-> (IF cr = 1 THEN <<DelayEv(FRAME_DELAY), ClearEv>> ELSE <<>>)
                           \o <<SetCursorEv(0, nr),
                                PrintEv(substring(buf, ls + 1, ls + wl))>>,
            indexSpace |-> ToUint8(0 + wl),
            lastSpace  |-> off,
            wordLength |-> 0,
            currRow    |-> nr]

\* one iteration of the scan loop of printStringToLCD on the renderer's
\* locals st: the flush when the scanned character is a space, then
\* wordLength++ and offset++ (both uint8_t)
scanIteration(buf, sb, st) ==
  IF sb[st.offset + 1] = SPACE
  THEN LET r == printWord(buf, st.indexSpace, st.lastSpace, st.wordLength,
                          st.currRow, st.offset)
       IN  [ops        |-> r.ops,
            indexSpace |-> r.indexSpace,
            lastSpace  |-> r.lastSpace,
            currRow    |-> r.currRow,
            wordLength |-> ToUint8(r.wordLength + 1),
            offset     |-> ToUint8(st.offset + 1)]
  ELSE [ops        |-> <<>>,
        indexSpace |-> st.indexSpace,
        lastSpace  |-> st.lastSpace,
        currRow    |-> st.currRow,
        wordLength |-> ToUint8(st.wordLength + 1),
        offset     |-> ToUint8(st.offset + 1)]

\* the flush after the scan loop
finalFlush(buf, st) ==
  LET r == printWord(buf, st.indexSpace, st.lastSpace, st.wordLength,
                     st.currRow, st.offset)
  IN  [ops        |-> r.ops,
       indexSpace |-> r.indexSpace,
       lastSpace  |-> r.lastSpace,
       currRow    |-> r.currRow,
       wordLength |-> r.wordLength,
       offset     |-> st.offset]

\* the locals of printStringToLCD at the start of the scan
initialLocals ==
  [ops |-> <<>>, indexSpace |-> 0, lastSpace |-> 0, currRow |-> 0,
   wordLength |-> 0, offset |-> 0]

\* the scan buffer of printStringToLCD: strLength + 1 elements holding the
\* garbage g, then filled by toCharArray(stringBuffer, strLength)
scanBuffer(b, g) ==
  LET n == ToUint8(Len(b))
  IN  toCharArray(b, [i \in 1..(n + 1) |-> g], n)

\* the display operations of one whole call of printStringToLCD, for a
\* buffer whose scan loop ends (strLength # 255)
RECURSIVE scanLoop(_, _, _, _, _)
scanLoop(buf, sb, n, st, acc) ==
  IF st.offset < n + 1
  THEN LET s == scanIteration(buf, sb, st)
       IN  scanLoop(buf, sb, n, s, acc \o s.ops)
  ELSE acc \o finalFlush(buf, st).ops

printStringToLCD(b, g) ==
  scanLoop(b, scanBuffer(b, g), ToUint8(Len(b)), initialLocals, <<>>)

\* A faulty variant of equals: a prefix test (startsWith) instead of equality
equals_prefix(a, b) ==
  /\ Len(a) >= Len(b)
  /\ \A i \in 1..Len(b) : a[i] = b[i]

\* ---------------------------------------------------------------------
\* The Bluetooth sketch: String::equals is a comparison of the lengths and
\* of every character (case-sensitive)
equals(a, b) ==
  /\ Len(a) = Len(b)
  /\ \A i \in 1..Len(a) : a[i] = b[i]

BLUETOOTH_HELP   == <<"H","E","L","P">>
WALL_FOLLOW_MODE == <<"W","F","M">>
LINE_FOLLOW_MODE == <<"L","F","M">>

\* what one call of updateBluetooth does with the message it read:
\* the lines sent on the link and the strings handed to the LCD manager
dispatch(stringBuffer) ==
  IF equals(stringBuffer, LINE_FOLLOW_MODE)
  THEN [lcd |-> <<"Line Follower Mode Enabled">>,
        bt  |-> <<"Line Follower Mode Enabled">>]
  ELSE IF equals(stringBuffer, WALL_FOLLOW_MODE)
  THEN [lcd |-> <<"Wall Follower Mode Enabled">>,
        bt  |-> <<"Wall Follower Mode Enabled">>]
  ELSE IF equals(stringBuffer, BLUETOOTH_HELP)
  THEN [lcd |-> <<>>,
        bt  |-> <<"Commands:", "WFM -> Enable Wall Follow Mode",
                  "LFM -> Enable Line Follow Mode">>]
  ELSE [lcd |-> <<>>,
        bt  |-> <<"Command not recognized.",
                  "Type \"HELP\" to see available commands">>]

\* ---------------------------------------------------------------------
\* Inputs
AckSets == {{}, {1}, {39, 63}}

Sentence == <<"t","h","i","s"," ","i","s"," ","a"," ","t","e","s","t"," ","o","f"," ","w","o","r","d"," ","w","r","a","p"," ","f","u","n","c","t","i","o","n","a","l","i","t","y"," ","f","o","r"," ","t","h","e"," ","l","c","d"," ","d","i","s","p","l","a","y"," ","n","o","w">>
HelloBye == <<"h","e","l","l","o","w","o","r","l","d","h","e","l","l","o"," ","b","y","e">>

ShortBuffers == UNION {[1..n -> ShortAlphabet] : n \in 0..MaxLen}

LongBuffers ==
  { Word(15), Word(16), Word(17), Word(21),
    Word(21) \o <<SPACE>> \o Word(2),
    Word(8) \o <<SPACE>> \o Word(7),
    Word(8) \o <<SPACE, SPACE>> \o Word(6),
    Word(8) \o <<SPACE>> \o Word(6),
    Word(16) \o <<SPACE>> \o Word(16) \o <<SPACE>> \o Word(3),
    HelloBye, Sentence,
    Word(254), Word(255), Word(256), Word(300),
    Word(3) \o <<SPACE>> \o Word(251),
    Word(20) \o <<SPACE>> \o Word(234),
    Word(17) \o <<SPACE>> \o Word(100) \o <<SPACE>> \o Word(136),
    Word(511),
    Word(256) \o <<SPACE>> \o Word(3) }

Inputs == ShortBuffers \cup LongBuffers

\* values the uninitialised element of the scan buffer can hold
GarbageChars == {SPACE, "#"}

\* messages a Bluetooth terminal sends
Messages ==
  { LINE_FOLLOW_MODE, WALL_FOLLOW_MODE, BLUETOOTH_HELP,
    <<"l","f","m">>, <<"L","f","m">>, <<"w","f","m">>, <<"h","e","l","p">>,
    <<"L","F","M"," ">>, <<" ","L","F","M">>, <<"L","F">>,
    <<"H","E","L","P","X">>, <<"X">> }

\* ---------------------------------------------------------------------
\* State
VARIABLES
  pc,              \* position of the LCD sketch
  acks,            \* I2C addresses that acknowledge (environment)
  addressOfDevice, \* findDeviceAddress: loop counter (uint8_t)
  addressFound,    \* findDeviceAddress: flag
  lcd,             \* the global display handle: NULL or LiquidCrystal_I2C(a)
  serialOut,       \* what setup printed on the serial console
  serialBuffer,    \* the global String read by loop()
  stringBuffer,    \* printStringToLCD: the char array scanned
  strLength,       \* printStringToLCD: uint8_t
  wordLength, currRow, lastSpace, indexSpace, offset,   \* printStringToLCD: uint8_t
  cursor,          \* the display's cursor, [row, col]
  lastOps,         \* display operations of the latest step
  log,             \* display operations of the current phase (setup, or one loop() pass)
  logFull,         \* TRUE once an operation was dropped from log
  btPc,            \* position of the Bluetooth sketch
  btRx,            \* bytes waiting in the receive buffer of the link
  btSent,          \* lines the latest updateBluetooth sent on the link
  lcdCalls,        \* strings the latest updateBluetooth handed to the LCD manager
  lcdText          \* the string the LCD manager was last asked to show

lcdVars == <<pc, acks, addressOfDevice, addressFound, lcd, serialOut, serialBuffer,
             stringBuffer, strLength, wordLength, currRow, lastSpace, indexSpace,
             offset, cursor, lastOps, log, logFull>>

btVars == <<btPc, btRx, btSent, lcdCalls, lcdText>>

vars == <<lcdVars, btVars>>

\* recording of display operations, whole calls at a time
Emit(l, ops) == IF Len(l) + Len(ops) <= MaxLog THEN l \o ops ELSE l
Dropped(l, ops) == Len(l) + Len(ops) > MaxLog

Init ==
  /\ pc = "probe"
  /\ acks \in AckSets
  /\ addressOfDevice = 1
  /\ addressFound = FALSE
  /\ lcd = NULL
  /\ serialOut = <<>>
  /\ serialBuffer = <<>>
  /\ stringBuffer = <<>>
  /\ strLength = 0
  /\ wordLength = 0 /\ currRow = 0 /\ lastSpace = 0 /\ indexSpace = 0 /\ offset = 0
  /\ cursor = [row |-> 0, col |-> 0]
  /\ lastOps = <<>>
  /\ log = <<>>
  /\ logFull = FALSE
  /\ btPc = "setup"
  /\ btRx = <<>>
  /\ btSent = <<>>
  /\ lcdCalls = <<>>
  /\ lcdText = ""

rendererVars == <<serialBuffer, stringBuffer, strLength, wordLength, currRow,
                  lastSpace, indexSpace, offset>>
displayVars == <<cursor, lastOps, log, logFull>>

\* the renderer's locals as one record
locals ==
  [ops |-> <<>>, indexSpace |-> indexSpace, lastSpace |-> lastSpace,
   currRow |-> currRow, wordLength |-> wordLength, offset |-> offset]

\* findDeviceAddress: one iteration of the probing loop
ProbeStep ==
  /\ pc = "probe"
  /\ addressOfDevice < POSSIBLE_ADDRESSES
  /\ IF addressOfDevice \in acks
     THEN /\ addressFound' = TRUE
          /\ pc' = "probed"
          /\ UNCHANGED addressOfDevice
     ELSE /\ addressOfDevice' = ToUint8(addressOfDevice + 1)
          /\ UNCHANGED <<addressFound, pc>>
  /\ UNCHANGED <<acks, lcd, serialOut, rendererVars, displayVars, btVars>>

\* findDeviceAddress: the probing loop ends without an acknowledgement
ProbeEnd ==
  /\ pc = "probe"
  /\ ~(addressOfDevice < POSSIBLE_ADDRESSES)
  /\ pc' = "probed"
  /\ UNCHANGED <<acks, addressOfDevice, addressFound, lcd, serialOut,
                 rendererVars, displayVars, btVars>>

\* the value findDeviceAddress returns through its uint8_t return type
findDeviceAddressResult ==
  IF addressFound THEN addressOfDevice ELSE ToUint8(DEVICE_NOT_FOUND)

\* setup, after findDeviceAddress returned: the comparison is an int comparison
\* of the promoted uint8_t with DEVICE_NOT_FOUND
SetupDisplay ==
  /\ pc = "probed"
  /\ LET deviceAddress == findDeviceAddressResult
     IN  /\ serialOut' = IF addressFound THEN <<"Device Address: ", addressOfDevice>> ELSE <<>>
         /\ IF deviceAddress # DEVICE_NOT_FOUND
            THEN LET ops == <<BeginEv(CHARS_PER_LINE, NUM_LINES), BacklightPinEv(BACKLIGHT_PIN),
                              BacklightEv(LED_ON), ClearEv, SetCursorEv(0, 0)>>
                 IN  /\ lcd' = LiquidCrystal_I2C(deviceAddress)
                     /\ log' = Emit(log, ops)
                     /\ lastOps' = ops
                     /\ cursor' = CursorAfter(cursor, ops)
            ELSE UNCHANGED <<lcd, log, lastOps, cursor>>
  /\ pc' = "loop"
  /\ UNCHANGED <<acks, addressOfDevice, addressFound, rendererVars, logFull, btVars>>

\* loop() with serial data available: clear, home, read the buffer and enter
\* printStringToLCD up to the start of its scan loop.  The element
\* stringBuffer[strLength] is never written by toCharArray: it holds garbage g.
\* A null display handle is dereferenced without a test.
LoopRead ==
  /\ pc = "loop"
  /\ \E b \in Inputs, g \in GarbageChars :
       IF lcd = NULL
       THEN /\ pc' = "crashed"
            /\ UNCHANGED <<rendererVars, displayVars>>
       ELSE LET ops == <<ClearEv, SetCursorEv(0, 0)>>
            IN  /\ log' = ops
                /\ lastOps' = ops
                /\ logFull' = FALSE
                /\ cursor' = CursorAfter(cursor, ops)
                /\ serialBuffer' = b
                /\ strLength' = ToUint8(Len(b))
                /\ stringBuffer' = scanBuffer(b, g)
                /\ wordLength' = initialLocals.wordLength
                /\ currRow' = initialLocals.currRow
                /\ lastSpace' = initialLocals.lastSpace
                /\ indexSpace' = initialLocals.indexSpace
                /\ offset' = initialLocals.offset
                /\ pc' = "scan"
  /\ UNCHANGED <<acks, addressOfDevice, addressFound, lcd, serialOut, btVars>>

\* one iteration of the scan loop of printStringToLCD
ScanStep ==
  /\ pc = "scan"
  /\ offset < strLength + 1
  /\ LET s == scanIteration(serialBuffer, stringBuffer, locals)
     IN  /\ indexSpace' = s.indexSpace
         /\ lastSpace' = s.lastSpace
         /\ currRow' = s.currRow
         /\ wordLength' = s.wordLength
         /\ offset' = s.offset
         /\ lastOps' = s.ops
         /\ log' = Emit(log, s.ops)
         /\ logFull' = (logFull \/ Dropped(log, s.ops))
         /\ cursor' = CursorAfter(cursor, s.ops)
  /\ UNCHANGED <<pc, acks, addressOfDevice, addressFound, lcd, serialOut,
                 serialBuffer, stringBuffer, strLength, btVars>>

\* the scan loop ends; the last word is flushed and printStringToLCD returns
FinalPrintWord ==
  /\ pc = "scan"
  /\ ~(offset < strLength + 1)
  /\ LET s == finalFlush(serialBuffer, locals)
     IN  /\ indexSpace' = s.indexSpace
         /\ lastSpace' = s.lastSpace
         /\ currRow' = s.currRow
         /\ wordLength' = s.wordLength
         /\ offset' = s.offset
         /\ lastOps' = s.ops
         /\ log' = Emit(log, s.ops)
         /\ logFull' = (logFull \/ Dropped(log, s.ops))
         /\ cursor' = CursorAfter(cursor, s.ops)
  /\ pc' = "done"
  /\ UNCHANGED <<acks, addressOfDevice, addressFound, lcd, serialOut,
                 serialBuffer, stringBuffer, strLength, btVars>>

\* loop() returns; the locals of printStringToLCD are gone
LoopReturn ==
  /\ pc = "done"
  /\ pc' = "loop"
  /\ stringBuffer' = <<>>
  /\ strLength' = 0
  /\ wordLength' = 0 /\ currRow' = 0 /\ lastSpace' = 0 /\ indexSpace' = 0 /\ offset' = 0
  /\ lastOps' = <<>>
  /\ UNCHANGED <<acks, addressOfDevice, addressFound, lcd, serialOut, serialBuffer,
                 cursor, log, logFull, btVars>>

Next ==
  \/ ProbeStep
  \/ ProbeEnd
  \/ SetupDisplay
  \/ LoopRead
  \/ ScanStep
  \/ FinalPrintWord
  \/ LoopReturn

Spec == Init /\ [][Next]_vars

\* The processor keeps executing the statements of printStringToLCD and the
\* return of loop(); the arrival of serial input is not forced.
FairSpec == Spec /\ WF_vars(ScanStep) /\ WF_vars(FinalPrintWord) /\ WF_vars(LoopReturn)

\* ---------------------------------------------------------------------
\* The Bluetooth sketch

\* setup(): the link, the LCD manager and the timer are created, and
\* updateBluetooth is registered with the timer
BtSetup ==
  /\ btPc = "setup"
  /\ btPc' = "running"
  /\ UNCHANGED <<btRx, btSent, lcdCalls, lcdText, lcdVars>>

\* a message arrives on the link and waits in the receive buffer
BtReceive ==
  /\ btPc = "running"
  /\ \E m \in Messages :
       /\ Len(btRx) + Len(m) <= MaxRx
       /\ btRx' = btRx \o m
  /\ UNCHANGED <<btPc, btSent, lcdCalls, lcdText, lcdVars>>

\* the timer calls updateBluetooth
UpdateBluetooth ==
  /\ btPc = "running"
  /\ IF Len(btRx) > 0
     THEN LET d == dispatch(btRx)
          IN  /\ btSent' = d.bt
              /\ lcdCalls' = d.lcd
              /\ lcdText' = IF d.lcd = <<>> THEN lcdText ELSE d.lcd[Len(d.lcd)]
              /\ btRx' = <<>>
     ELSE /\ btSent' = <<>>
          /\ lcdCalls' = <<>>
          /\ UNCHANGED <<lcdText, btRx>>
  /\ UNCHANGED <<btPc, lcdVars>>

NextBT ==
  \/ BtSetup
  \/ BtReceive
  \/ UpdateBluetooth

SpecBT == Init /\ [][NextBT]_vars

TypeOK ==
  /\ pc \in {"probe", "probed", "loop", "scan", "done", "crashed"}
  /\ offset \in 0..255 /\ wordLength \in 0..255 /\ indexSpace \in 0..255
  /\ lastSpace \in 0..255 /\ strLength \in 0..255

\* =====================================================================
\* Observations used by the properties

\* the display operations printStringToLCD made in the current pass
\* (log starts with the clear and setCursor(0, 0) of loop())
RenderLog == SubSeq(log, 3, Len(log))

\* the writes of at least one character, each with the cursor position
\* at which the display receives it
RECURSIVE PlacementsFrom(_, _)
PlacementsFrom(cur, ops) ==
  IF ops = <<>> THEN <<>>
  ELSE LET ev == Head(ops)
           rest == PlacementsFrom(CursorAfterOp(cur, ev), Tail(ops))
       IN  IF ev.op = "print" /\ Len(ev.text) > 0
           THEN <<[text |-> ev.text, row |-> cur.row, col |-> cur.col]>> \o rest
           ELSE rest

Placements(ops) == PlacementsFrom([row |-> 0, col |-> 0], ops)

\* number of maximal runs of non-space characters
NumWords(buf) ==
  Cardinality({i \in 1..Len(buf) : buf[i] # SPACE /\ (i = 1 \/ buf[i - 1] = SPACE)})

NoSpaces(buf) == \A i \in 1..Len(buf) : buf[i] # SPACE

\* the next step of the renderer is a word flush (a call of printWord)
FlushPending ==
  /\ pc = "scan"
  /\ (~(offset < strLength + 1) \/ stringBuffer[offset + 1] = SPACE)

\* the fit test of the flush about to happen fails
WordDoesNotFit == ~((indexSpace + wordLength - 1) < CHARS_PER_LINE)

HasOp(ops, name) == \E i \in 1..Len(ops) : ops[i].op = name

\* every recorded pass that ended was recorded in full
DoneLogComplete == (pc = "done") => ~logFull

\* =====================================================================
\* C1. A render pass terminates for every buffer: once the scan of
\* printStringToLCD has started, the scan loop exits and the final printWord
\* returns.  As a liveness property (checked under FairSpec):
RenderTerminates == (pc = "scan") ~> (pc = "done")

\* C1 through the progress measure of the scan loop: every iteration moves
\* offset one position further towards strLength + 1, where the loop exits
\* (so a pass makes at most strLength + 1 iterations and then the final flush).
ScanLoopExits ==
  [][(pc = "scan" /\ pc' = "scan") => (offset' = offset + 1 /\ offset' <= strLength + 1)]_vars

\* =====================================================================
\* C2. A buffer that is one word of exactly CHARS_PER_LINE characters is
\* rendered as exactly one write of the whole word at (row 0, column 0):
\* no row advance, no setCursor, no clear, no delay.
ExactFitSingleWrite ==
  (pc = "done" /\ Len(serialBuffer) = CHARS_PER_LINE /\ NoSpaces(serialBuffer))
    => /\ RenderLog = <<PrintEv(serialBuffer)>>
       /\ currRow = 0

\* =====================================================================
\* C3. A buffer that is one word longer than a row is written in full at
\* column 0 of a row: one write whose text is the entire word.
OverflowWordWrittenInFull ==
  (pc = "done" /\ NoSpaces(serialBuffer) /\ Len(serialBuffer) > CHARS_PER_LINE
     /\ Len(serialBuffer) < Uint8Range - 1)
    => \E r \in 0..(NUM_LINES - 1) :
         Placements(RenderLog) = <<[text |-> serialBuffer, row |-> r, col |-> 0]>>

\* =====================================================================
\* C4. The number of placements (writes of characters to the display) of a
\* render pass equals the number of non-empty space-delimited words of the
\* buffer; the empty buffer and a buffer of spaces give zero placements.
PlacementCountEqualsWordCount ==
  (pc = "done") => Len(Placements(RenderLog)) = NumWords(serialBuffer)

\* =====================================================================
\* C5. Rendering is invariant to consecutive spaces: a buffer whose words
\* are separated by runs of spaces places every word (every non-space
\* character) at the same (row, column) as the buffer with single
\* separators, and performs the same row advances and page clears.
RECURSIVE CollapseSpaces(_)
CollapseSpaces(b) ==
  IF Len(b) < 2 THEN b
  ELSE IF b[1] = SPACE /\ b[2] = SPACE THEN CollapseSpaces(Tail(b))
  ELSE <<b[1]>> \o CollapseSpaces(Tail(b))

\* the non-space characters written, each with its cell
RECURSIVE CellsFrom(_, _)
CellsFrom(cur, ops) ==
  IF ops = <<>> THEN <<>>
  ELSE LET ev == Head(ops)
           rest == CellsFrom(CursorAfterOp(cur, ev), Tail(ops))
           idx == IF ev.op = "print"
                  THEN {i \in 1..Len(ev.text) : ev.text[i] # SPACE} ELSE {}
           cells == [i \in 1..Len(ev.text) |->
                       [ch |-> ev.text[i], row |-> cur.row, col |-> cur.col + i - 1]]
       IN  IF idx = {} THEN rest
           ELSE SelectSeq(cells, LAMBDA c : c.ch # SPACE) \o rest

WordCells(ops) == CellsFrom([row |-> 0, col |-> 0], ops)

RowAdvancesAndClears(ops) == SelectSeq(ops, LAMBDA e : e.op # "print")

SpaceRunsDoNotMatter ==
  (pc = "done" /\ Len(serialBuffer) > 0 /\ Len(serialBuffer) < Uint8Range - 1
     /\ serialBuffer[1] # SPACE /\ serialBuffer[Len(serialBuffer)] # SPACE)
    => LET single == printStringToLCD(CollapseSpaces(serialBuffer),
                                      stringBuffer[strLength + 1])
       IN  /\ WordCells(RenderLog) = WordCells(single)
           /\ RowAdvancesAndClears(RenderLog) = RowAdvancesAndClears(single)

\* =====================================================================
\* C6. Paging order: a flush whose word does not fit while the current row
\* is row 1 performs delay(FRAME_DELAY), clear, setCursor(0, 0), print, in
\* that order; no other flush delays or clears (on row 0 it is
\* setCursor(0, 1), print); currRow is always 0 or 1.
PagingStep ==
  FlushPending =>
    IF WordDoesNotFit /\ currRow = 1
    THEN /\ Len(lastOps') = 4
         /\ lastOps'[1] = DelayEv(FRAME_DELAY)
         /\ lastOps'[2] = ClearEv
         /\ lastOps'[3] = SetCursorEv(0, 0)
         /\ lastOps'[4].op = "print"
         /\ currRow' = 0
    ELSE /\ ~HasOp(lastOps', "delay")
         /\ ~HasOp(lastOps', "clear")
         /\ WordDoesNotFit =>
              /\ Len(lastOps') = 2
              /\ lastOps'[1] = SetCursorEv(0, 1)
              /\ lastOps'[2].op = "print"
              /\ currRow' = 1

\* in the operations of a pass every delay is followed at once by clear,
\* setCursor(0, 0) and a print, and every clear directly follows a delay
PagingLogShape ==
  (pc \in {"scan", "done"}) =>
    \A i \in 1..Len(RenderLog) :
      /\ RenderLog[i].op = "delay" =>
           /\ RenderLog[i].ms = FRAME_DELAY
           /\ i + 3 <= Len(RenderLog)
           /\ RenderLog[i + 1].op = "clear"
           /\ RenderLog[i + 2] = SetCursorEv(0, 0)
           /\ RenderLog[i + 3].op = "print"
      /\ RenderLog[i].op = "clear" => (i > 1 /\ RenderLog[i - 1].op = "delay")
      /\ RenderLog[i] = SetCursorEv(0, 0) => (i > 1 /\ RenderLog[i - 1].op = "clear")

\* C6: currRow is 0 or 1 and is the display's row, the operations of a pass
\* have the paging shape, and every flush pages exactly when its word does
\* not fit on row 1.
PagingOrder ==
  /\ [](currRow \in {0, 1})
  /\ []((pc \in {"scan", "done"}) => cursor.row = currRow)
  /\ []PagingLogShape
  /\ [][PagingStep]_vars

\* a pass that paged at least once has ended
PagingHappened == pc = "done" /\ HasOp(RenderLog, "delay")

\* =====================================================================
\* C7 as stated: at every word flush the tracked offset indexSpace is at
\* most CHARS_PER_LINE before the word is placed.
IndexSpaceAtMostColumnsAtFlush == FlushPending => indexSpace <= CHARS_PER_LINE

\* C7 amended: at every word flush indexSpace is at most CHARS_PER_LINE
\* before the word is placed, except at a flush that directly follows a
\* no-fit flush whose wordLength (the word and its leading separator)
\* exceeds CHARS_PER_LINE: there indexSpace is that wordLength.
\* As steps: a pass starts with indexSpace = 0, a scan iteration without a
\* flush leaves indexSpace alone, and a flush leaves indexSpace at most
\* CHARS_PER_LINE unless it is a no-fit flush of a wordLength above
\* CHARS_PER_LINE, which leaves indexSpace = wordLength.
IndexSpaceStep ==
  /\ (pc = "loop" /\ pc' = "scan") => indexSpace' = 0
  /\ (pc = "scan" /\ ~FlushPending) => indexSpace' = indexSpace
  /\ FlushPending =>
       \/ indexSpace' <= CHARS_PER_LINE
       \/ /\ WordDoesNotFit
          /\ HasOp(lastOps', "setCursor")
          /\ wordLength > CHARS_PER_LINE
          /\ indexSpace' = wordLength

IndexSpaceBoundedUnlessOverlong == [][IndexSpaceStep]_vars

\* a pass placed a word longer than a row and then flushed again
OverlongThenMore ==
  /\ pc = "done"
  /\ \E i \in 1..Len(RenderLog) :
       /\ RenderLog[i].op = "print"
       /\ Len(RenderLog[i].text) > CHARS_PER_LINE
       /\ \E j \in (i + 1)..Len(RenderLog) :
            RenderLog[j].op = "print" /\ Len(RenderLog[j].text) > 0

\* =====================================================================
\* C8. With no I2C address acknowledging, setup leaves lcd NULL and makes
\* no display call, and the program goes on without any display operation
\* and without dereferencing the null handle.
NoDeviceDegradesToNoOp ==
  (acks = {} /\ pc \notin {"probe", "probed"})
    => /\ lcd = NULL
       /\ log = <<>>
       /\ pc # "crashed"

\* =====================================================================
\* C9. updateBluetooth is a case-sensitive exact-match lookup with one
\* outcome per poll: nothing is written when no data is available; "LFM"
\* and "WFM" show and acknowledge their mode; "HELP" sends the three help
\* lines and leaves the LCD alone; every other message sends "Command not
\* recognized." and the HELP hint and leaves the LCD alone.
DispatchStep ==
  (btPc = "running" /\ btPc' = "running" /\ btRx' = <<>>) =>
    IF btRx = <<>>
    THEN btSent' = <<>> /\ lcdCalls' = <<>> /\ lcdText' = lcdText
    ELSE IF btRx = <<"L","F","M">>
    THEN /\ btSent' = <<"Line Follower Mode Enabled">>
         /\ lcdCalls' = <<"Line Follower Mode Enabled">>
         /\ lcdText' = "Line Follower Mode Enabled"
    ELSE IF btRx = <<"W","F","M">>
    THEN /\ btSent' = <<"Wall Follower Mode Enabled">>
         /\ lcdCalls' = <<"Wall Follower Mode Enabled">>
         /\ lcdText' = "Wall Follower Mode Enabled"
    ELSE IF btRx = <<"H","E","L","P">>
    THEN /\ btSent' = <<"Commands:", "WFM -> Enable Wall Follow Mode",
                        "LFM -> Enable Line Follow Mode">>
         /\ lcdCalls' = <<>>
         /\ lcdText' = lcdText
    ELSE /\ btSent' = <<"Command not recognized.",
                        "Type \"HELP\" to see available commands">>
         /\ lcdCalls' = <<>>
         /\ lcdText' = lcdText

\* C9: every call of updateBluetooth has the one outcome its message selects.
DispatchExactMatch == [][DispatchStep]_vars

\* an unrecognised message was answered while the LCD still shows a mode
UnrecognisedAfterMode ==
  /\ btSent = <<"Command not recognized.", "Type \"HELP\" to see available commands">>
  /\ lcdCalls = <<>>
  /\ lcdText = "Line Follower Mode Enabled"

\* =====================================================================
\* C10. During a pass indexSpace is at least the display's cursor column,
\* so a run written without a row change ends at or before column
\* CHARS_PER_LINE; the cursor is past the right edge only right after a
\* run written immediately after setCursor(0, currRow).
FitRunStep ==
  (FlushPending /\ ~HasOp(lastOps', "setCursor")) => cursor'.col <= CHARS_PER_LINE

PastEdgeOnlyAfterRowChange ==
  (cursor.col > CHARS_PER_LINE /\ ~logFull) =>
     /\ Len(log) >= 2
     /\ log[Len(log) - 1].op = "setCursor"
     /\ log[Len(log)].op = "print"

\* C10: indexSpace covers the cursor column, a run written without a row
\* change ends at or before the right edge, and the cursor is past the edge
\* only right after a run that followed a row change.
IndexSpaceCoversCursor ==
  /\ []((pc \in {"scan", "done"}) => indexSpace >= cursor.col)
  /\ []PastEdgeOnlyAfterRowChange
  /\ [][FitRunStep]_vars

\* the same for the passes whose scan loop ends (strLength # 255)
IndexSpaceCoversCursorIfLoopEnds ==
  /\ []((pc \in {"scan", "done"} /\ strLength # Uint8Range - 1) => indexSpace >= cursor.col)
  /\ []((strLength # Uint8Range - 1) => PastEdgeOnlyAfterRowChange)
  /\ [][(strLength # Uint8Range - 1) => FitRunStep]_vars

\* a run written without a row change ended exactly at the right edge
FitRunEndsAtEdge ==
  /\ pc \in {"scan", "done"}
  /\ Len(lastOps) = 1 /\ lastOps[1].op = "print" /\ Len(lastOps[1].text) > 0
  /\ cursor.col = CHARS_PER_LINE

====
